---- MODULE Spec2Model ----
(***************************************************************************)
(* Model of streamlit_app.py: the earthquake dashboard script.             *)
(*                                                                         *)
(* Numbers.  Magnitudes, depths, latitudes and longitudes are decimal      *)
(* numbers with at most two decimals; the model holds each as an integer   *)
(* count of hundredths (3.9 is 390, -67.8 is -6780).  A float NaN (what    *)
(* pd.to_numeric(errors="coerce") yields for a missing or non-numeric      *)
(* cell) is the value NaN below, outside every numeric range of the model. *)
(* Times are integer hours; a missing time (pd.NaT) is the value NaT.      *)
(***************************************************************************)
EXTENDS Integers, Sequences, FiniteSets, TLC

\* Every browser session runs the script in a thread of its own; the variables
\* of a run are functions of the session.  The feed and the cache of
\* generaTabla are shared by all sessions.
VARIABLES
    pc,          \* position of each session's script run
    sel,         \* the sidebar's widget values of each session's run
    feed,        \* what QuakeFeed returns now: a sequence of raw events
    cache,       \* st.cache_data entries of generaTabla, by (severidad, periodo)
    candado,     \* by key, the session computing generaTabla for it (0: none)
    peticiones,  \* number of upstream requests (QuakeFeed constructions) so far
    df,          \* each run's DataFrame: a sequence of rows
    rango_fijo,  \* each run's fixed-colour-range flag
    metricas,    \* each run's summary: cantidad, prom_mag_str, prom_prof_str
    df_tabla,    \* each run's top-N table (rows, display index = position)
    salida,      \* the elements rendered on each session's page, in order
    arg,         \* argument of a direct call of clasificacion_richter
    ret          \* the value that call returned

vars == <<pc, sel, feed, cache, candado, peticiones, df, rango_fijo, metricas,
          df_tabla, salida, arg, ret>>

Sesiones == DOMAIN pc

-----------------------------------------------------------------------------
(* Values *)

NaN == -999999
NaT == -888888

isna(x) == x = NaN \/ x = NaT

\* A Python value handed to a numeric conversion: a number, None, a float
\* NaN, a text that is no number ("abc"), or a text that spells one ("4.5").
PyNum(v)      == [k |-> "num", v |-> v]
PyNone        == [k |-> "none", v |-> 0]
PyNaN         == [k |-> "nan", v |-> 0]
PyTexto       == [k |-> "texto", v |-> 0]
PyTextoNum(v) == [k |-> "texto_num", v |-> v]

\* pd.to_numeric(column, errors="coerce"), one cell
to_numeric(x) ==
    IF x.k \in {"num", "texto_num"} THEN x.v ELSE NaN

\* A float cell of a numeric column as the Python value Series.apply passes
celda(x) == IF x = NaN THEN PyNaN ELSE PyNum(x)

Max2(a, b) == IF a >= b THEN a ELSE b
Min2(a, b) == IF a <= b THEN a ELSE b

\* Series.clip(lower, upper) on one cell: NaN stays NaN
clip_lower(x, lo) == IF x = NaN THEN NaN ELSE Max2(x, lo)
clip(x, lo, hi)   == IF x = NaN THEN NaN ELSE Min2(Max2(x, lo), hi)
fillna(x, v)      == IF x = NaN THEN v ELSE x

-----------------------------------------------------------------------------
(* clasificacion_richter *)

Clases == {"micro", "menor", "ligero", "moderado", "fuerte", "mayor",
           "épico", "legendario", "desconocida"}

\* richter_de_float with the first comparison written m <= 2
richter_micro_inclusivo(m) ==
    IF m <= 200 THEN "micro"
    ELSE IF 200 <= m /\ m <= 390 THEN "menor"
    ELSE IF 400 <= m /\ m <= 490 THEN "ligero"
    ELSE IF 500 <= m /\ m <= 590 THEN "moderado"
    ELSE IF 600 <= m /\ m <= 690 THEN "fuerte"
    ELSE IF 700 <= m /\ m <= 790 THEN "mayor"
    ELSE IF 800 <= m /\ m <= 990 THEN "épico"
    ELSE "legendario"

\* The comparison chain of the function on a float m (hundredths).
richter_de_float(m) ==
    IF m < 200 THEN "micro"
    ELSE IF 200 <= m /\ m <= 390 THEN "menor"
    ELSE IF 400 <= m /\ m <= 490 THEN "ligero"
    ELSE IF 500 <= m /\ m <= 590 THEN "moderado"
    ELSE IF 600 <= m /\ m <= 690 THEN "fuerte"
    ELSE IF 700 <= m /\ m <= 790 THEN "mayor"
    ELSE IF 800 <= m /\ m <= 990 THEN "épico"
    ELSE "legendario"

clasificacion_richter(mag) ==
    IF mag.k \in {"none", "nan"} THEN "desconocida"   \* mag is None or pd.isna(mag)
    ELSE IF mag.k = "texto" THEN "desconocida"          \* float(mag) raises
    ELSE richter_de_float(mag.v)

-----------------------------------------------------------------------------
(* Feed events and DataFrame rows *)

\* An event time as the feed hands it over: a naive datetime (wall clock t),
\* an aware datetime (wall clock t at UTC offset off), or no datetime at all.
Naive(t)      == [k |-> "naive", t |-> t, off |-> 0]
Aware(t, off) == [k |-> "aware", t |-> t, off |-> off]
NoDatetime    == [k |-> "otro", t |-> 0, off |-> 0]

\* One event of the feed, index-aligned fields of QuakeFeed
Evento(time, lon, lat, lugar, mag, prof) ==
    [time |-> time, lon |-> lon, lat |-> lat, lugar |-> lugar,
     mag |-> mag, prof |-> prof]

\* _to_utc: naive datetimes are tagged UTC, aware ones converted, the rest NaT
to_utc(x) ==
    IF x.k = "naive" THEN x.t
    ELSE IF x.k = "aware" THEN x.t - x.off
    ELSE NaT

HorasPorDia == 24

\* fecha_es_sola: "" (the empty sequence) for a missing time, else the text
\* of the calendar date of the UTC instant, held as <<day number>>
fecha_es_sola(dt_utc) ==
    IF isna(dt_utc) THEN <<>> ELSE <<dt_utc \div HorasPorDia>>

Indices(s) == 1..Len(s)

\* DataFrame.reset_index(drop=True): the index becomes 0..n-1
reset_index(rows) == [i \in Indices(rows) |-> [rows[i] EXCEPT !.indice = i - 1]]

\* positional selection of rows by a sequence of positions
take(rows, p) == [i \in Indices(p) |-> rows[p[i]]]

\* the positions of a set of positions, ascending
ascendente(S) ==
    [j \in 1..Cardinality(S) |->
        CHOOSE i \in S : Cardinality({x \in S : x < i}) = j - 1]

\* the rows at the positions where the mask holds, in order (df.loc[m])
loc(rows, m) == take(rows, ascendente({i \in Indices(rows) : m[i]}))

(* DataFrame.sort_values(col, ascending=False) with the default
   kind="quicksort" sorts through numpy's argsort, an introsort over an array
   t of positions into the keys v: partitions of more than SMALL_QUICKSORT + 1
   positions are split around the median of three, shorter ones are sorted by
   insertion, and a partition reached past the depth limit is heap-sorted. *)

SMALL_QUICKSORT == 16

\* t with the positions at i and j exchanged (INTP_SWAP)
intp_swap(t, i, j) == [t EXCEPT ![i] = t[j], ![j] = t[i]]

\* npy_get_msb: the position of the highest set bit of n
RECURSIVE npy_get_msb(_)
npy_get_msb(n) == IF n <= 1 THEN 0 ELSE 1 + npy_get_msb(n \div 2)

\* the inner loop of the insertion sort: the positions before pj whose key
\* is greater than that of vi move up one place and vi takes the gap
RECURSIVE insercion_hueco(_, _, _, _, _)
insercion_hueco(v, t, pl, pj, vi) ==
    IF pj > pl /\ v[vi] < v[t[pj - 1]]
    THEN insercion_hueco(v, [t EXCEPT ![pj] = t[pj - 1]], pl, pj - 1, vi)
    ELSE [t EXCEPT ![pj] = vi]

\* the insertion sort of t[pl..pr], t[pl..pi-1] being sorted
RECURSIVE insercion(_, _, _, _, _)
insercion(v, t, pl, pr, pi) ==
    IF pi > pr THEN t
    ELSE insercion(v, insercion_hueco(v, t, pl, pi, t[pi]), pl, pr, pi + 1)

\* the positions at i < j exchanged when their keys are out of order
ordena_dos(v, t, i, j) == IF v[t[j]] < v[t[i]] THEN intp_swap(t, j, i) ELSE t

\* the median of three left at pm: (pl, pm), then (pm, pr), then (pl, pm)
mediana_de_tres(v, t, pl, pm, pr) ==
    ordena_dos(v, ordena_dos(v, ordena_dos(v, t, pl, pm), pm, pr), pl, pm)

\* do { ++pi; } while (v[*pi] < vp), entered with i = pi + 1
RECURSIVE sube(_, _, _, _)
sube(v, t, i, vp) == IF v[t[i]] < vp THEN sube(v, t, i + 1, vp) ELSE i

\* do { --pj; } while (vp < v[*pj]), entered with j = pj - 1
RECURSIVE baja(_, _, _, _)
baja(v, t, j, vp) == IF vp < v[t[j]] THEN baja(v, t, j - 1, vp) ELSE j

\* one round of the partition loop, the two scans having stopped at i and j
RECURSIVE particion_r(_, _, _, _, _)
particion_r(v, t, i, j, vp) ==
    IF i >= j THEN [t |-> t, pi |-> i]
    ELSE particion_r(v, intp_swap(t, i, j),
                     sube(v, intp_swap(t, i, j), i + 1, vp),
                     baja(v, intp_swap(t, i, j), j - 1, vp), vp)

\* the partition of t[pl..pr] once the median is at pm: the pivot is parked
\* at pr - 1, the scans exchange out-of-place positions and the pivot is
\* put between the two parts, at pi
particion_en(v, t, pl, pr, vp) ==
    particion_r(v, t, sube(v, t, pl + 1, vp), baja(v, t, pr - 2, vp), vp)

particion_fin(p, pr) == [t |-> intp_swap(p.t, p.pi, pr - 1), pi |-> p.pi]

particion_pivote(v, t, pl, pm, pr) ==
    particion_fin(particion_en(v, intp_swap(t, pm, pr - 1), pl, pr, v[t[pm]]), pr)

particion(v, t, pl, pr) ==
    particion_pivote(v, mediana_de_tres(v, t, pl, pl + ((pr - pl) \div 2), pr),
                     pl, pl + ((pr - pl) \div 2), pr)

\* heapsort, sifting down: the position tmp sinks from the node i of the
\* heap of n nodes kept in t[base + 1 .. base + n], j being the left child
RECURSIVE heap_hunde(_, _, _, _, _, _, _)
heap_hunde(v, t, base, i, j, n, tmp) ==
    IF j > n THEN [t EXCEPT ![base + i] = tmp]
    ELSE IF j < n /\ v[t[base + j]] < v[t[base + j + 1]]
    THEN (IF v[tmp] < v[t[base + j + 1]]
          THEN heap_hunde(v, [t EXCEPT ![base + i] = t[base + j + 1]],
                          base, j + 1, 2 * (j + 1), n, tmp)
          ELSE [t EXCEPT ![base + i] = tmp])
    ELSE (IF v[tmp] < v[t[base + j]]
          THEN heap_hunde(v, [t EXCEPT ![base + i] = t[base + j]],
                          base, j, 2 * j, n, tmp)
          ELSE [t EXCEPT ![base + i] = tmp])

\* the heap is built from the node l down to the first
RECURSIVE heap_arma(_, _, _, _, _)
heap_arma(v, t, base, l, n) ==
    IF l = 0 THEN t
    ELSE heap_arma(v, heap_hunde(v, t, base, l, 2 * l, n, t[base + l]),
                   base, l - 1, n)

\* the greatest node goes to the end and the heap shrinks by one
RECURSIVE heap_saca(_, _, _, _)
heap_saca(v, t, base, n) ==
    IF n <= 1 THEN t
    ELSE heap_saca(v, heap_hunde(v, [t EXCEPT ![base + n] = t[base + 1]],
                                 base, 1, 2, n - 1, t[base + n]),
                   base, n - 1)

\* aheapsort of the n positions t[pl .. pl + n - 1]
aheapsort(v, t, pl, n) ==
    heap_saca(v, heap_arma(v, t, pl - 1, n \div 2, n), pl - 1, n)

\* aquicksort, the loop over the partitions: t[pl..pr] is split while it is
\* long, the longer part going to the stack pila with the depth left, then
\* sorted by insertion; a part popped with no depth left is heap-sorted
RECURSIVE aquicksort_r(_, _, _, _, _, _), aquicksort_pop(_, _, _)
aquicksort_corta(v, p, pl, pr, cdepth, pila) ==
    IF p.pi - pl < pr - p.pi
    THEN aquicksort_r(v, p.t, pl, p.pi - 1, cdepth - 1,
                      Append(pila, <<p.pi + 1, pr, cdepth - 1>>))
    ELSE aquicksort_r(v, p.t, p.pi + 1, pr, cdepth - 1,
                      Append(pila, <<pl, p.pi - 1, cdepth - 1>>))

aquicksort_r(v, t, pl, pr, cdepth, pila) ==
    IF pr - pl > SMALL_QUICKSORT
    THEN aquicksort_corta(v, particion(v, t, pl, pr), pl, pr, cdepth, pila)
    ELSE aquicksort_pop(v, insercion(v, t, pl, pr, pl + 1), pila)

aquicksort_pop(v, t, pila) ==
    IF pila = <<>> THEN t
    ELSE IF pila[Len(pila)][3] < 0
    THEN aquicksort_pop(v, aheapsort(v, t, pila[Len(pila)][1],
                                     pila[Len(pila)][2] - pila[Len(pila)][1] + 1),
                        SubSeq(pila, 1, Len(pila) - 1))
    ELSE aquicksort_r(v, t, pila[Len(pila)][1], pila[Len(pila)][2],
                      pila[Len(pila)][3], SubSeq(pila, 1, Len(pila) - 1))

\* ndarray.argsort(kind="quicksort") of the keys v: the positions of v in
\* ascending order of key
aquicksort(v) ==
    aquicksort_r(v, [i \in 1..Len(v) |-> i], 1, Len(v),
                 2 * npy_get_msb(Len(v)), <<>>)

\* s from its last element to its first (s[::-1])
invertida(s) == [i \in 1..Len(s) |-> s[Len(s) + 1 - i]]

\* the non-missing positions R of keys in descending order of key, as nargsort
\* computes it for ascending=False: the positions are reversed, sorted
\* ascending by key and reversed again
argsort_desc_de(keys, idx) ==
    invertida(take(idx, aquicksort(take(keys, idx))))

argsort_desc(keys, R) == argsort_desc_de(keys, invertida(ascendente(R)))

\* pandas nargsort(ascending=False, na_position="last"): the sorted
\* non-missing positions, then the missing ones in their original order
nargsort(keys) ==
    argsort_desc(keys, {i \in Indices(keys) : ~isna(keys[i])})
        \o ascendente({i \in Indices(keys) : isna(keys[i])})

\* DataFrame.sort_values(col, ascending=False, na_position="last"), keys
\* being the column's values
sort_values(rows, keys) == take(rows, nargsort(keys))

-----------------------------------------------------------------------------
(* generaTabla *)

TAM_VISIBLE == 10      \* 0.1, the size given to every marker when all are 0

\* magnitud_size_de without the fillna(0)
magnitud_size_sin_fillna(mag) == clip_lower(mag, 0)

\* df["magnitud"].clip(lower=0).fillna(0), one cell
magnitud_size_de(mag) == fillna(clip_lower(mag, 0), 0)

\* the frame before sorting: numeric columns coerced, derived columns added
tabla_sin_ordenar(f) ==
    LET mags  == [i \in Indices(f) |-> to_numeric(f[i].mag)]
        sizes == [i \in Indices(f) |-> magnitud_size_de(mags[i])]
        todos_cero == \A i \in Indices(f) : sizes[i] = 0
    IN [i \in Indices(f) |->
          [indice        |-> i - 1,
           time          |-> f[i].time,
           lon           |-> to_numeric(f[i].lon),
           lat           |-> to_numeric(f[i].lat),
           localizacion  |-> f[i].lugar,
           magnitud      |-> mags[i],
           profundidad   |-> to_numeric(f[i].prof),
           magnitud_size |-> IF todos_cero THEN TAM_VISIBLE ELSE sizes[i],
           time_utc      |-> to_utc(f[i].time),
           fecha         |-> fecha_es_sola(to_utc(f[i].time)),
           clasificacion |-> clasificacion_richter(celda(mags[i]))]]

\* the frame generaTabla returns for the feed content f; lines 148-149: the
\* rows sorted by time_utc descending, the index renumbered
generaTabla(f) ==
    LET t == tabla_sin_ordenar(f)
    IN reset_index(sort_values(t, [i \in Indices(t) |-> t[i].time_utc]))

-----------------------------------------------------------------------------
(* filtrar_puerto_rico *)

LAT_MIN == 1760
LAT_MAX == 1870
LON_MIN == -6780
LON_MAX == -6480

\* between with the bounds excluded
between_exclusivo(x, lo, hi) == x # NaN /\ lo < x /\ x < hi

\* Series.between(lo, hi, inclusive="both"): False for NaN
between(x, lo, hi) == x # NaN /\ lo <= x /\ x <= hi

en_bbox(r) ==
    between(r.lat, LAT_MIN, LAT_MAX) /\ between(r.lon, LON_MIN, LON_MAX)

filtrar_puerto_rico(rows) ==
    IF rows = <<>> THEN rows
    ELSE reset_index(loc(rows, [i \in Indices(rows) |-> en_bbox(rows[i])]))

-----------------------------------------------------------------------------
(* The sidebar and the cache of generaTabla *)

SEV_OPCIONES     == {"todos", "significativo", "4.5", "2.5", "1.0"}
PERIODO_OPCIONES == {"mes", "semana", "día"}
ZONAS            == {"Puerto Rico", "Mundo"}
N_MIN     == 5
N_MAX     == 20
N_DEFECTO == 5

sev_map(l) ==
    CASE l = "todos" -> "all"
      [] l = "significativo" -> "significant"
      [] OTHER -> l

periodo_map(l) ==
    CASE l = "mes" -> "month"
      [] l = "semana" -> "week"
      [] OTHER -> "day"

\* every key generaTabla can be called with
Claves == {<<sev_map(a), periodo_map(b)>> : a \in SEV_OPCIONES, b \in PERIODO_OPCIONES}

\* the arguments of the run's call generaTabla(severidad_feed, periodo_feed)
clave(s) == <<sev_map(s.sev_label), periodo_map(s.periodo_label)>>

TTL == 120

SinEntrada == [ok |-> FALSE, df |-> <<>>, edad |-> 0]

\* vigente without the time-to-live
vigente_sin_ttl(e) == e.ok

\* an entry answers a call while it is younger than the time-to-live
vigente(e) == e.ok /\ e.edad < TTL

\* the entry written when the function has been computed
entrada_nueva(d) == [ok |-> TRUE, df |-> d, edad |-> 0]

\* the widget values a run can have: the slider exists only with the table on
Selecciones(Sevs, Pers, Zs, Mapas, Tablas, Ns) ==
    {s \in [sev_label : Sevs, periodo_label : Pers, zona : Zs,
            mostrar_mapa : Mapas, mostrar_tabla : Tablas,
            n_eventos_tabla : Ns \cup {N_DEFECTO}] :
        /\ s.n_eventos_tabla \in N_MIN..N_MAX
        /\ ~s.mostrar_tabla => s.n_eventos_tabla = N_DEFECTO}

-----------------------------------------------------------------------------
(* The steps of one run of the script, s being the session that runs it *)

MaxPeticiones == 2

Elemento(el, datos) == [el |-> el, datos |-> datos]

SinMetricas == [cantidad |-> 0, prom_mag_str |-> <<>>, prom_prof_str |-> <<>>]

\* line 301, the call of generaTabla through st.cache_data: the entry of the
\* key is looked up, no lock being held; a live entry answers the call
CargarDatos(s) ==
    /\ pc[s] = "cargar"
    /\ LET k == clave(sel[s])
       IN IF vigente(cache[k])
          THEN /\ df' = [df EXCEPT ![s] = cache[k].df]
               /\ pc' = [pc EXCEPT ![s] = "filtrar"]
          ELSE /\ pc' = [pc EXCEPT ![s] = "candado"]
               /\ UNCHANGED df
    /\ UNCHANGED <<sel, feed, cache, candado, peticiones, rango_fijo, metricas,
                   df_tabla, salida, arg, ret>>

\* lines 101-108, the call after a miss: the session takes the lock under
\* which st.cache_data computes the key and looks the entry up again, since
\* another session may have stored it meanwhile; still missing, generaTabla
\* runs, and its first statement (line 108) sends the request to the feed
TomarCandado(s) ==
    /\ pc[s] = "candado"
    /\ LET k == clave(sel[s])
       IN /\ candado[k] = 0
          /\ IF vigente(cache[k])
             THEN /\ df' = [df EXCEPT ![s] = cache[k].df]
                  /\ pc' = [pc EXCEPT ![s] = "filtrar"]
                  /\ UNCHANGED <<candado, peticiones>>
             ELSE /\ peticiones < MaxPeticiones
                  /\ peticiones' = peticiones + 1
                  /\ candado' = [candado EXCEPT ![k] = s]
                  /\ pc' = [pc EXCEPT ![s] = "peticion"]
                  /\ UNCHANGED df
    /\ UNCHANGED <<sel, feed, cache, rango_fijo, metricas, df_tabla, salida,
                   arg, ret>>

\* lines 108-149, the rest of generaTabla: the feed answers with the events
\* it holds by then and the frame built from them is stored, with age 0, and
\* returned; or the request fails, the exception ends the run and nothing is
\* stored.  Either way the lock of the key is released.
TerminarPeticion(s) ==
    /\ pc[s] = "peticion"
    /\ LET k == clave(sel[s])
       IN /\ candado' = [candado EXCEPT ![k] = 0]
          /\ \E responde \in BOOLEAN :
               IF responde
               THEN /\ df' = [df EXCEPT ![s] = generaTabla(feed[k])]
                    /\ cache' = [cache EXCEPT ![k] = entrada_nueva(df'[s])]
                    /\ pc' = [pc EXCEPT ![s] = "filtrar"]
                    /\ UNCHANGED salida
               ELSE /\ pc' = [pc EXCEPT ![s] = "error"]
                    /\ salida' = [salida EXCEPT
                                    ![s] = Append(@, Elemento("excepcion", <<>>))]
                    /\ UNCHANGED <<df, cache>>
    /\ UNCHANGED <<sel, feed, peticiones, rango_fijo, metricas, df_tabla,
                   arg, ret>>

\* lines 304-305
FiltrarZona(s) ==
    /\ pc[s] = "filtrar"
    /\ df' = [df EXCEPT ![s] = IF sel[s].zona = "Puerto Rico"
                               THEN filtrar_puerto_rico(@) ELSE @]
    /\ pc' = [pc EXCEPT ![s] = "color"]
    /\ UNCHANGED <<sel, feed, cache, candado, peticiones, rango_fijo, metricas,
                   df_tabla, salida, arg, ret>>

COLOR_MIN == 180
COLOR_MAX == 300

\* line 310: the reference configuration
es_referencia(s) ==
    s.zona = "Puerto Rico" /\ s.sev_label = "todos" /\ s.periodo_label = "mes"

\* magnitud_color_de that clips only from above
magnitud_color_solo_superior(mag, fijo) ==
    IF fijo /\ mag # NaN THEN Min2(mag, COLOR_MAX) ELSE mag

\* lines 308 and 312, one cell
magnitud_color_de(mag, fijo) ==
    IF fijo THEN clip(mag, COLOR_MIN, COLOR_MAX) ELSE mag

con_color(r, c) ==
    [indice        |-> r.indice,
     time          |-> r.time,
     lon           |-> r.lon,
     lat           |-> r.lat,
     localizacion  |-> r.localizacion,
     magnitud      |-> r.magnitud,
     profundidad   |-> r.profundidad,
     magnitud_size |-> r.magnitud_size,
     time_utc      |-> r.time_utc,
     fecha         |-> r.fecha,
     clasificacion |-> r.clasificacion,
     magnitud_color |-> c]

\* lines 308-312
AjustarColor(s) ==
    /\ pc[s] = "color"
    /\ rango_fijo' = [rango_fijo EXCEPT ![s] = es_referencia(sel[s])]
    /\ df' = [df EXCEPT ![s] =
                [i \in Indices(@) |->
                   con_color(@[i], magnitud_color_de(@[i].magnitud,
                                                     es_referencia(sel[s])))]]
    /\ pc' = [pc EXCEPT ![s] = "metricas"]
    /\ UNCHANGED <<sel, feed, cache, candado, peticiones, metricas, df_tabla,
                   salida, arg, ret>>

(* Series.mean() and f"{x:.2f}" work on IEEE-754 doubles.  A double is held
   as sign s (1 or -1; 0 for NaN), mantissa m and exponent e, its value being
   s * m * 2^e with 2^52 <= m < 2^53 (m = 0 for zero).  The mantissa and the
   intermediate integers exceed the integers of the model checker, so they are
   held as sequences of 15-bit limbs, least significant first, the empty
   sequence being 0. *)

BASE == 32768

RECURSIVE Pow2(_)
Pow2(k) == IF k = 0 THEN 1 ELSE 2 * Pow2(k - 1)

limb(a, i) == IF i <= Len(a) THEN a[i] ELSE 0

RECURSIVE bn_norm(_)
bn_norm(a) ==
    IF a = <<>> THEN a
    ELSE IF a[Len(a)] = 0 THEN bn_norm(SubSeq(a, 1, Len(a) - 1))
    ELSE a

RECURSIVE bn_de(_)
bn_de(n) == IF n = 0 THEN <<>> ELSE <<n % BASE>> \o bn_de(n \div BASE)

RECURSIVE bn_a_entero(_)
bn_a_entero(a) == IF a = <<>> THEN 0 ELSE a[1] + BASE * bn_a_entero(Tail(a))

RECURSIVE bn_suma_c(_, _, _, _)
bn_suma_c(a, b, i, c) ==
    IF i > Len(a) /\ i > Len(b) THEN (IF c = 0 THEN <<>> ELSE <<c>>)
    ELSE LET x == limb(a, i) + limb(b, i) + c
         IN <<x % BASE>> \o bn_suma_c(a, b, i + 1, x \div BASE)

bn_suma(a, b) == bn_suma_c(a, b, 1, 0)

RECURSIVE bn_resta_c(_, _, _, _)
bn_resta_c(a, b, i, c) ==
    IF i > Len(a) THEN <<>>
    ELSE LET x == a[i] - limb(b, i) - c
         IN <<(x + BASE) % BASE>>
              \o bn_resta_c(a, b, i + 1, IF x < 0 THEN 1 ELSE 0)

\* a - b for a >= b
bn_resta(a, b) == bn_norm(bn_resta_c(a, b, 1, 0))

\* -1, 0 or 1 as a < b, a = b or a > b
bn_cmp(a, b) ==
    IF Len(a) # Len(b) THEN (IF Len(a) > Len(b) THEN 1 ELSE -1)
    ELSE LET D == {i \in 1..Len(a) : a[i] # b[i]}
         IN IF D = {} THEN 0
            ELSE LET i == CHOOSE x \in D : \A y \in D : y <= x
                 IN IF a[i] > b[i] THEN 1 ELSE -1

RECURSIVE bn_por_c(_, _, _, _)
bn_por_c(a, m, i, c) ==
    IF i > Len(a) THEN (IF c = 0 THEN <<>> ELSE <<c>>)
    ELSE LET x == a[i] * m + c
         IN <<x % BASE>> \o bn_por_c(a, m, i + 1, x \div BASE)

\* a * m for 0 < m < BASE
bn_por(a, m) == bn_por_c(a, m, 1, 0)

RECURSIVE bn_entre_r(_, _, _, _)
bn_entre_r(a, d, i, r) ==
    IF i = 0 THEN [q |-> <<>>, r |-> r]
    ELSE LET x    == r * BASE + a[i]
             rest == bn_entre_r(a, d, i - 1, x % d)
         IN [q |-> rest.q \o <<x \div d>>, r |-> rest.r]

\* quotient and remainder of a by d, 0 < d <= BASE
bn_entre(a, d) ==
    LET x == bn_entre_r(a, d, Len(a), 0)
    IN [q |-> bn_norm(x.q), r |-> x.r]

\* a * 2^k
bn_izq(a, k) ==
    IF a = <<>> THEN a
    ELSE [i \in 1..(k \div 15) |-> 0] \o bn_por(a, Pow2(k % 15))

\* a \div 2^k
bn_der(a, k) ==
    IF k \div 15 >= Len(a) THEN <<>>
    ELSE bn_entre(SubSeq(a, (k \div 15) + 1, Len(a)), Pow2(k % 15)).q

\* the number of binary digits of a
bn_bits(a) ==
    IF a = <<>> THEN 0
    ELSE 15 * (Len(a) - 1)
           + (CHOOSE b \in 1..15 : Pow2(b - 1) <= a[Len(a)] /\ a[Len(a)] < Pow2(b))

bn_impar(a) == a # <<>> /\ a[1] % 2 = 1

\* a / 2^k (k > 0) rounded to the nearest integer, ties to the even one
bn_redondea(a, k) ==
    LET q == bn_der(a, k)
        c == bn_cmp(bn_resta(a, bn_izq(q, k)), bn_izq(<<1>>, k - 1))
    IN IF c = 1 \/ (c = 0 /\ bn_impar(q)) THEN bn_suma(q, <<1>>) ELSE q

F64(s, m, e) == [s |-> s, m |-> m, e |-> e]
F64Cero == F64(1, <<>>, 0)
F64NaN  == F64(0, <<>>, 0)

\* the double nearest to s * n * 2^e (round to nearest, ties to even)
f64_redondea(s, n, e) ==
    IF n = <<>> THEN F64Cero
    ELSE LET L == bn_bits(n)
         IN IF L <= 53 THEN F64(s, bn_izq(n, 53 - L), e - (53 - L))
            ELSE LET q == bn_redondea(n, L - 53)
                 IN IF bn_bits(q) = 54
                    THEN F64(s, bn_der(q, 1), e + (L - 53) + 1)
                    ELSE F64(s, q, e + (L - 53))

\* a quotient carried to extra binary digits, the last one set when the
\* division left a remainder
con_resto(x) == bn_suma(bn_izq(x.q, 1), IF x.r = 0 THEN <<>> ELSE <<1>>)

\* the double of a decimal number of v hundredths: the float the feed's cell
\* holds
f64_de_centesimas(v) ==
    IF v = 0 THEN F64Cero
    ELSE f64_redondea(IF v > 0 THEN 1 ELSE -1,
                      con_resto(bn_entre(bn_izq(bn_de(IF v > 0 THEN v ELSE 0 - v), 64), 100)),
                      -65)

\* a + b
f64_suma(a, b) ==
    IF a.m = <<>> THEN b
    ELSE IF b.m = <<>> THEN a
    ELSE LET e == Min2(a.e, b.e)
             A == bn_izq(a.m, a.e - e)
             B == bn_izq(b.m, b.e - e)
             c == bn_cmp(A, B)
         IN IF a.s = b.s THEN f64_redondea(a.s, bn_suma(A, B), e)
            ELSE IF c = 0 THEN F64Cero
            ELSE IF c = 1 THEN f64_redondea(a.s, bn_resta(A, B), e)
            ELSE f64_redondea(b.s, bn_resta(B, A), e)

\* the largest t in lo..hi with d * t <= x, given d * lo <= x
RECURSIVE bn_digito(_, _, _, _)
bn_digito(x, d, lo, hi) ==
    IF lo = hi THEN lo
    ELSE IF bn_cmp(bn_por(d, (lo + hi + 1) \div 2), x) <= 0
    THEN bn_digito(x, d, (lo + hi + 1) \div 2, hi)
    ELSE bn_digito(x, d, lo, ((lo + hi + 1) \div 2) - 1)

\* the long division of the i low limbs of a by d, the higher limbs having
\* left the remainder r < d: each step divides r * BASE + a[i] by d
RECURSIVE bn_entre_bn_r(_, _, _, _)
bn_entre_bn_r(a, d, i, r) ==
    IF i = 0 THEN [q |-> <<>>, r |-> r]
    ELSE LET x    == bn_norm(<<a[i]>> \o r)
             t    == bn_digito(x, d, 0, BASE - 1)
             rest == bn_entre_bn_r(a, d, i - 1,
                                   IF t = 0 THEN x ELSE bn_resta(x, bn_por(d, t)))
         IN [q |-> rest.q \o <<t>>, r |-> rest.r]

\* quotient and remainder of a by d, d > 0 of any size
bn_entre_bn(a, d) ==
    LET x == bn_entre_bn_r(a, d, Len(a), <<>>)
    IN [q |-> bn_norm(x.q), r |-> x.r]

\* a / n for a count n > 0, which a double holds exactly: the quotient is
\* carried to 64 more binary digits than the mantissa, more than 53 whatever
\* the count, and a last digit is set when the division left a remainder
f64_entre(a, n) ==
    IF a.m = <<>> THEN a
    ELSE LET x == bn_entre_bn(bn_izq(a.m, 64), bn_de(n))
         IN f64_redondea(a.s,
                         bn_suma(bn_izq(x.q, 1), IF x.r = <<>> THEN <<>> ELSE <<1>>),
                         a.e - 65)

\* r[j] + xs[i + j] for the eight partial sums r
RECURSIVE ocho_sumas(_, _, _, _)
ocho_sumas(r, xs, i, fin) ==
    IF i >= fin THEN r
    ELSE ocho_sumas([j \in 1..8 |-> f64_suma(r[j], xs[i + j])], xs, i + 8, fin)

\* the sum of an even number of partial sums, pair by pair:
\* ((r[1] + r[2]) + (r[3] + r[4])) + ((r[5] + r[6]) + (r[7] + r[8]))
RECURSIVE suma_por_pares(_)
suma_por_pares(r) ==
    IF Len(r) = 1 THEN r[1]
    ELSE suma_por_pares([j \in 1..(Len(r) \div 2) |->
                           f64_suma(r[2 * j - 1], r[2 * j])])

RECURSIVE suma_seguida(_, _, _)
suma_seguida(res, xs, i) ==
    IF i > Len(xs) THEN res ELSE suma_seguida(f64_suma(res, xs[i]), xs, i + 1)

\* ndarray.sum() of a contiguous column of doubles: the values are added one
\* after the other when they are fewer than 8, in eight interleaved partial
\* sums up to 128 of them, and by halves beyond
RECURSIVE np_sum(_)
np_sum(xs) ==
    IF Len(xs) < 8 THEN suma_seguida(F64Cero, xs, 1)
    ELSE IF Len(xs) <= 128
    THEN suma_seguida(
             suma_por_pares(ocho_sumas(SubSeq(xs, 1, 8), xs, 8,
                                       Len(xs) - (Len(xs) % 8))),
             xs, Len(xs) - (Len(xs) % 8) + 1)
    ELSE f64_suma(np_sum(SubSeq(xs, 1, (Len(xs) \div 2) - ((Len(xs) \div 2) % 8))),
                  np_sum(SubSeq(xs, (Len(xs) \div 2) - ((Len(xs) \div 2) % 8) + 1,
                                Len(xs))))

\* the doubles of a column, every NaN cell replaced by 0
valores_sin_nan(col) ==
    [i \in Indices(col) |-> f64_de_centesimas(fillna(col[i], 0))]

\* mean that counts a NaN cell as a 0 instead of skipping it
mean_sobre_todas(col) ==
    IF col = <<>> THEN F64NaN
    ELSE f64_entre(np_sum(valores_sin_nan(col)), Len(col))

\* Series.mean(): the sum of the column with its NaN cells taken as 0, divided
\* by the number of cells that are not NaN; NaN when there is none
mean(col) ==
    LET cuenta == Cardinality({i \in Indices(col) : col[i] # NaN})
    IN IF cuenta = 0 THEN F64NaN
       ELSE f64_entre(np_sum(valores_sin_nan(col)), cuenta)

\* f"{x:.2f}": the exact value of the double rounded to hundredths, ties to
\* even; "nan" for NaN, "-0.00" for a negative value that rounds to zero.  The
\* text of a number is held as <<"num", hundredths>>.
formato_2f(x) ==
    IF x.s = 0 THEN <<"nan">>
    ELSE IF x.m = <<>> THEN <<"num", 0>>
    ELSE LET c == bn_por(x.m, 100)
             h == bn_a_entero(IF x.e >= 0 THEN bn_izq(c, x.e)
                              ELSE bn_redondea(c, 0 - x.e))
         IN IF h = 0 /\ x.s < 0 THEN <<"-0.00">> ELSE <<"num", x.s * h>>

columna_magnitud(rows)    == [i \in Indices(rows) |-> rows[i].magnitud]
columna_profundidad(rows) == [i \in Indices(rows) |-> rows[i].profundidad]

\* lines 316-320
calcula_metricas(rows) ==
    LET cantidad == Len(rows)
    IN [cantidad      |-> cantidad,
        prom_mag_str  |-> IF cantidad > 0
                          THEN formato_2f(mean(columna_magnitud(rows)))
                          ELSE <<"N/A">>,
        prom_prof_str |-> IF cantidad > 0
                          THEN formato_2f(mean(columna_profundidad(rows))) \o <<"km">>
                          ELSE <<"N/A">>]

\* lines 315-332: the summary block
Metricas(s) ==
    /\ pc[s] = "metricas"
    /\ metricas' = [metricas EXCEPT ![s] = calcula_metricas(df[s])]
    /\ salida' = [salida EXCEPT
                    ![s] = Append(@, Elemento("resumen", metricas'[s]))]
    /\ pc' = [pc EXCEPT ![s] = "guardia"]
    /\ UNCHANGED <<sel, feed, cache, candado, peticiones, df, rango_fijo,
                   df_tabla, arg, ret>>

\* Guardia without the st.stop()
Guardia_sin_stop(s) ==
    /\ pc[s] = "guardia"
    /\ IF df[s] = <<>>
       THEN salida' = [salida EXCEPT ![s] = Append(@, Elemento("aviso", <<>>))]
       ELSE UNCHANGED salida
    /\ pc' = [pc EXCEPT ![s] = "tabla"]
    /\ UNCHANGED <<sel, feed, cache, candado, peticiones, df, rango_fijo,
                   metricas, df_tabla, arg, ret>>

\* lines 334-336: st.warning and st.stop on an empty frame
Guardia(s) ==
    /\ pc[s] = "guardia"
    /\ IF df[s] = <<>>
       THEN /\ salida' = [salida EXCEPT ![s] = Append(@, Elemento("aviso", <<>>))]
            /\ pc' = [pc EXCEPT ![s] = "stop"]
       ELSE /\ pc' = [pc EXCEPT ![s] = "tabla"]
            /\ UNCHANGED salida
    /\ UNCHANGED <<sel, feed, cache, candado, peticiones, df, rango_fijo,
                   metricas, df_tabla, arg, ret>>

\* head that returns one row more than asked
head_uno_mas(rows, n) == SubSeq(rows, 1, Min2(n + 1, Len(rows)))

\* DataFrame.head(n)
head(rows, n) == SubSeq(rows, 1, Min2(n, Len(rows)))

\* line 340: the four displayed columns (and the index) of a copy
columnas_tabla(rows) ==
    [i \in Indices(rows) |->
        [indice        |-> rows[i].indice,
         fecha         |-> rows[i].fecha,
         localizacion  |-> rows[i].localizacion,
         magnitud      |-> rows[i].magnitud,
         clasificacion |-> rows[i].clasificacion]]

\* line 343: df_tabla.index = range(1, len(df_tabla) + 1)
indice_desde_1(rows) == [i \in Indices(rows) |-> [rows[i] EXCEPT !.indice = i]]

\* lines 340-343: the table of the n highest magnitudes
tabla_top(c, n) ==
    indice_desde_1(reset_index(head(sort_values(c, columna_magnitud(c)), n)))

\* lines 339-344
Tabla(s) ==
    /\ pc[s] = "tabla"
    /\ IF sel[s].mostrar_tabla
       THEN /\ df_tabla' = [df_tabla EXCEPT
                              ![s] = tabla_top(columnas_tabla(df[s]),
                                               sel[s].n_eventos_tabla)]
            /\ salida' = [salida EXCEPT
                            ![s] = Append(@, Elemento("tabla", df_tabla'[s]))]
       ELSE UNCHANGED <<df_tabla, salida>>
    /\ pc' = [pc EXCEPT ![s] = "hist_mag"]
    /\ UNCHANGED <<sel, feed, cache, candado, peticiones, df, rango_fijo,
                   metricas, arg, ret>>

\* generaHistogrammag / generaHistogramprof: the plotted values
histograma(col) == [i \in Indices(col) |-> clip_lower(col[i], 0)]

\* lines 349-351
HistMag(s) ==
    /\ pc[s] = "hist_mag"
    /\ salida' = [salida EXCEPT
                    ![s] = Append(@, Elemento("hist_mag",
                                              histograma(columna_magnitud(df[s]))))]
    /\ pc' = [pc EXCEPT ![s] = "hist_prof"]
    /\ UNCHANGED <<sel, feed, cache, candado, peticiones, df, rango_fijo,
                   metricas, df_tabla, arg, ret>>

\* lines 353-355
HistProf(s) ==
    /\ pc[s] = "hist_prof"
    /\ salida' = [salida EXCEPT
                    ![s] = Append(@, Elemento("hist_prof",
                                              histograma(columna_profundidad(df[s]))))]
    /\ pc' = [pc EXCEPT ![s] = "mapa"]
    /\ UNCHANGED <<sel, feed, cache, candado, peticiones, df, rango_fijo,
                   metricas, df_tabla, arg, ret>>

\* generaMapa: the view, the markers and the colour axis of the figure
generaMapa(rows, zona, fijo) ==
    [vista  |-> IF zona = "Puerto Rico" THEN "Puerto Rico" ELSE "Mundo",
     puntos |-> [i \in Indices(rows) |->
                   [lat |-> rows[i].lat, lon |-> rows[i].lon,
                    color |-> rows[i].magnitud_color,
                    size |-> rows[i].magnitud_size]],
     eje    |-> IF fijo THEN <<COLOR_MIN, COLOR_MAX>> ELSE <<>>]

\* lines 357-362
Mapa(s) ==
    /\ pc[s] = "mapa"
    /\ salida' = [salida EXCEPT
                    ![s] = Append(@, IF sel[s].mostrar_mapa
                                     THEN Elemento("mapa",
                                                   generaMapa(df[s], sel[s].zona,
                                                              rango_fijo[s]))
                                     ELSE Elemento("info_mapa", <<>>))]
    /\ pc' = [pc EXCEPT ![s] = "fin"]
    /\ UNCHANGED <<sel, feed, cache, candado, peticiones, df, rango_fijo,
                   metricas, df_tabla, arg, ret>>

\* the call of generaTabla through the cache
PasosDeCarga(s) ==
    \/ CargarDatos(s)
    \/ TomarCandado(s)
    \/ TerminarPeticion(s)

\* the rest of the script, which works on the run's own frame and page
PasosDeRender(s) ==
    \/ FiltrarZona(s)
    \/ AjustarColor(s)
    \/ Metricas(s)
    \/ Guardia(s)
    \/ Tabla(s)
    \/ HistMag(s)
    \/ HistProf(s)
    \/ Mapa(s)

\* a step of the run of some session, from the data load to the last element
Pasos == \E s \in Sesiones : PasosDeCarga(s) \/ PasosDeRender(s)

-----------------------------------------------------------------------------
(* Specifications *)

\* the state when the runs of the sessions of ss, ss[i] being the widget
\* values of session i, reach the data load, the feed holding f for every key
\* and nothing being cached: the title is on every page
InicioRuns(ss, f) ==
    /\ pc = [i \in DOMAIN ss |-> "cargar"]
    /\ sel = ss
    /\ feed = [k \in Claves |-> f]
    /\ cache = [k \in Claves |-> SinEntrada]
    /\ candado = [k \in Claves |-> 0]
    /\ peticiones = 0
    /\ df = [i \in DOMAIN ss |-> <<>>]
    /\ rango_fijo = [i \in DOMAIN ss |-> FALSE]
    /\ metricas = [i \in DOMAIN ss |-> SinMetricas]
    /\ df_tabla = [i \in DOMAIN ss |-> <<>>]
    /\ salida = [i \in DOMAIN ss |-> <<Elemento("titulo", <<>>)>>]
    /\ arg = PyNone
    /\ ret = ""

\* one session, with widget values s
InicioRun(s, f) == InicioRuns(<<s>>, f)

\* every sequence of at most n elements of S
SeqHasta(S, n) == UNION {[1..m -> S] : m \in 0..n}

PR_LON    == PyNum(-6650)
PR_LAT    == PyNum(1820)

(* Spec: one run over feeds drawn from a small catalogue of events *)

MaxFeed == 3

ePR_bajo  == Evento(Naive(30), PR_LON, PR_LAT, "Ponce", PyNum(150), PyNum(1000))
ePR_alto  == Evento(Naive(20), PR_LON, PR_LAT, "Guanica", PyNum(400), PyNum(2500))
ePR_nulo  == Evento(Naive(10), PR_LON, PR_LAT, "Lajas", PyNone, PyNone)
ePR_medio == Evento(Aware(8, -4), PR_LON, PR_LAT, "Yauco", PyNum(267), PyNum(-1))
eMundo    == Evento(Naive(25), PyNum(13900), PyNum(3500), "Honshu", PyNum(268), PyNum(0))

Catalogo == {ePR_bajo, ePR_alto, ePR_nulo, ePR_medio, eMundo}

SelsSpec ==
    Selecciones({"todos", "4.5"}, {"mes", "día"}, ZONAS, BOOLEAN, BOOLEAN,
                {N_MIN, N_MAX})

Init ==
    \E s \in SelsSpec, f \in SeqHasta(Catalogo, MaxFeed) : InicioRun(s, f)

Next == Pasos

Spec == Init /\ [][Next]_vars

(* SpecRichter: direct calls of clasificacion_richter *)

MagBajo == 100
MagAlto == 1100

ArgsRichter ==
    {PyNum(m) : m \in (0 - MagBajo)..MagAlto}
      \cup {PyTextoNum(m) : m \in {150, 390, 395, 400, 1000}}
      \cup {PyNone, PyNaN, PyTexto}

InitRichter ==
    /\ pc = <<"llamada">>
    /\ arg \in ArgsRichter
    /\ ret = ""
    /\ sel = <<CHOOSE s \in SelsSpec : TRUE>>
    /\ feed = [k \in Claves |-> <<>>]
    /\ cache = [k \in Claves |-> SinEntrada]
    /\ candado = [k \in Claves |-> 0]
    /\ peticiones = 0
    /\ df = << <<>> >>
    /\ rango_fijo = <<FALSE>>
    /\ metricas = <<SinMetricas>>
    /\ df_tabla = << <<>> >>
    /\ salida = << <<>> >>

Clasificar ==
    /\ pc[1] = "llamada"
    /\ ret' = clasificacion_richter(arg)
    /\ pc' = [pc EXCEPT ![1] = "retorno"]
    /\ UNCHANGED <<sel, feed, cache, candado, peticiones, df, rango_fijo,
                   metricas, df_tabla, salida, arg>>

NextRichter == Clasificar

SpecRichter == InitRichter /\ [][NextRichter]_vars

(* SpecGenera: one run over feeds that vary the event times, the
   magnitudes or the position of two events of the same time; the place of
   an event is its position in the feed *)

MaxFilas == 3

SelMundo ==
    [sev_label |-> "todos", periodo_label |-> "mes", zona |-> "Mundo",
     mostrar_mapa |-> TRUE, mostrar_tabla |-> FALSE,
     n_eventos_tabla |-> N_DEFECTO]

\* Aware(12, 2) is the same instant as Naive(10)
TiemposGenera == {Naive(10), Aware(12, 2), Naive(34), NoDatetime}
MagsGenera    == {PyNum(-50), PyNum(0), PyNum(250), PyNone, PyTexto}

FeedsTiempo ==
    {[i \in Indices(ts) |->
        Evento(ts[i], PR_LON, PR_LAT, i, PyNum(250), PyNum(1000))] :
     ts \in SeqHasta(TiemposGenera, MaxFilas)}

FeedsMagnitud ==
    {[i \in Indices(ms) |->
        Evento(Naive(10 * i), PR_LON, PR_LAT, i, ms[i], PyNum(1000))] :
     ms \in SeqHasta(MagsGenera, MaxFilas)}

\* feeds long enough for the sort to partition: LargoOrden events an hour
\* apart in ascending order of time, the event p carrying the time of the
\* event q
LargoOrden == 18

FeedsOrden ==
    {[i \in 1..LargoOrden |->
        Evento(Naive(IF i = p THEN q ELSE i), PR_LON, PR_LAT, i, PyNum(250),
               PyNum(1000))] :
     p \in 1..LargoOrden, q \in 1..LargoOrden}

InitGenera ==
    \E f \in FeedsTiempo \cup FeedsMagnitud \cup FeedsOrden :
        InicioRun(SelMundo, f)

SpecGenera == InitGenera /\ [][Next]_vars

(* SpecFiltro: one run over feeds whose events lie on, just inside and just
   outside the four sides of the bounding box *)

PuntosFiltro ==
    {<<PyNum(1760), PyNum(-6780)>>, <<PyNum(1870), PyNum(-6480)>>,
     <<PyNum(1759), PyNum(-6600)>>, <<PyNum(1871), PyNum(-6600)>>,
     <<PyNum(1800), PyNum(-6781)>>, <<PyNum(1800), PyNum(-6479)>>,
     <<PyNum(1800), PyNum(-6600)>>, <<PyNone, PyNum(-6600)>>}

FeedsFiltro ==
    {[i \in Indices(ps) |->
        Evento(Naive(10 * i), ps[i][2], ps[i][1], i, PyNum(250), PyNum(1000))] :
     ps \in SeqHasta(PuntosFiltro, MaxFilas)}

InitFiltro ==
    \E z \in ZONAS, f \in FeedsFiltro :
       InicioRun([SelMundo EXCEPT !.zona = z], f)

SpecFiltro == InitFiltro /\ [][Next]_vars

(* SpecTop: one run over feeds of up to MaxTop events whose magnitudes are
   distinct, null or tied, the table being on or off *)

MaxTop == 6

\* the magnitudes of position i: its own one (not in time order), or none;
\* the first two positions may also tie with the fourth
MagsTop(i) ==
    {PyNum(100 * ((3 * i) % 8)), PyNone}
      \cup (IF i <= 2 THEN {PyNum(400)} ELSE {})

FeedsTop ==
    UNION {
      {[i \in 1..n |->
          Evento(Naive(10 * i), PR_LON, PR_LAT, i, ms[i], PyNum(1000))] :
       ms \in {x \in [1..n -> UNION {MagsTop(i) : i \in 1..n}] :
                 \A i \in 1..n : x[i] \in MagsTop(i)}} :
      n \in 0..MaxTop}

SelsTop ==
    Selecciones({"todos"}, {"mes"}, {"Mundo"}, {TRUE}, BOOLEAN, N_MIN..N_MAX)

InitTop == \E s \in SelsTop, f \in FeedsTop : InicioRun(s, f)

SpecTop == InitTop /\ [][Next]_vars

(* SpecCache: two sessions run the script again and again with changing
   widget values, in any interleaving of their steps, while time passes and
   the feed changes, also during the wait for the feed's answer. *)

PasoReloj == 60

SesionesCache == {1, 2}

\* the widget values of session i.  The first session changes period (two
\* keys) and zone and shows the map and a table of N_MAX rows; the others
\* keep to the world view of the month, with neither map nor table.
SelsCache(i) ==
    IF i = 1
    THEN Selecciones({"todos"}, {"mes", "día"}, ZONAS, {TRUE}, {TRUE}, {N_MAX})
    ELSE Selecciones({"todos"}, {"mes"}, {"Mundo"}, {FALSE}, {FALSE}, {})

ClavesCache == {clave(s) : s \in UNION {SelsCache(i) : i \in SesionesCache}}

FeedsCache == {<<>>, <<ePR_bajo>>}

InitCache ==
    \E ss \in [SesionesCache -> UNION {SelsCache(i) : i \in SesionesCache}],
       f \in FeedsCache :
        /\ \A i \in SesionesCache : ss[i] \in SelsCache(i)
        /\ InicioRuns(ss, f)

\* lines 241-298: the user of session s changes a widget (or not) and the
\* script runs again from the top: the widgets are read and the title is
\* rendered
Interactuar(s) ==
    /\ pc[s] \in {"fin", "stop", "error"}
    /\ \E x \in SelsCache(s) : sel' = [sel EXCEPT ![s] = x]
    /\ pc' = [pc EXCEPT ![s] = "cargar"]
    /\ df' = [df EXCEPT ![s] = <<>>]
    /\ rango_fijo' = [rango_fijo EXCEPT ![s] = FALSE]
    /\ metricas' = [metricas EXCEPT ![s] = SinMetricas]
    /\ df_tabla' = [df_tabla EXCEPT ![s] = <<>>]
    /\ salida' = [salida EXCEPT ![s] = <<Elemento("titulo", <<>>)>>]
    /\ UNCHANGED <<feed, cache, candado, peticiones, arg, ret>>

\* PasoReloj seconds pass: every entry grows older (an age past the
\* time-to-live is held as the time-to-live)
Tick ==
    /\ \E k \in Claves : cache[k].ok /\ cache[k].edad < TTL
    /\ cache' = [k \in Claves |->
                   IF cache[k].ok
                   THEN [cache[k] EXCEPT !.edad = Min2(@ + PasoReloj, TTL)]
                   ELSE cache[k]]
    /\ UNCHANGED <<pc, sel, feed, candado, peticiones, df, rango_fijo, metricas,
                   df_tabla, salida, arg, ret>>

\* the upstream feed of one key publishes other events
FeedCambia ==
    /\ \E k \in ClavesCache, f \in FeedsCache :
         /\ f # feed[k]
         /\ feed' = [feed EXCEPT ![k] = f]
    /\ UNCHANGED <<pc, sel, cache, candado, peticiones, df, rango_fijo,
                   metricas, df_tabla, salida, arg, ret>>

NextCache ==
    \/ Pasos
    \/ \E s \in Sesiones : Interactuar(s)
    \/ Tick
    \/ FeedCambia

SpecCache == InitCache /\ [][NextCache]_vars

-----------------------------------------------------------------------------
(* Properties of clasificacion_richter, under SpecRichter *)

EsNumero(a) == a.k \in {"num", "texto_num"}

\* C1: every call returns exactly one tier of the fixed set; a missing or
\* non-numeric magnitude gives "desconocida", and on every range of the table
\* (m < 2, 2..3.9, 4..4.9, 5..5.9, 6..6.9, 7..7.9, 8..9.9, m >= 10), both ends
\* included, the result is the table's tier.
C1_TablaRichter ==
    pc[1] = "retorno" =>
      /\ ret \in {"micro", "menor", "ligero", "moderado", "fuerte", "mayor",
                  "épico", "legendario", "desconocida"}
      /\ ~EsNumero(arg) => ret = "desconocida"
      /\ EsNumero(arg) =>
           /\ arg.v < 200 => ret = "micro"
           /\ (200 <= arg.v /\ arg.v <= 390) => ret = "menor"
           /\ (400 <= arg.v /\ arg.v <= 490) => ret = "ligero"
           /\ (500 <= arg.v /\ arg.v <= 590) => ret = "moderado"
           /\ (600 <= arg.v /\ arg.v <= 690) => ret = "fuerte"
           /\ (700 <= arg.v /\ arg.v <= 790) => ret = "mayor"
           /\ (800 <= arg.v /\ arg.v <= 990) => ret = "épico"
           /\ arg.v >= 1000 => ret = "legendario"

\* a call at the boundary 2.0 has returned "menor"
C1_Testigo == pc[1] = "retorno" /\ arg = PyNum(200) /\ ret = "menor"

\* C2: the tiers leave no gap: a numeric magnitude is "legendario" only when
\* it is at least 10, and every magnitude below 10 is one of micro..épico.
C2_SinHuecos ==
    (pc[1] = "retorno" /\ EsNumero(arg)) =>
      /\ ret = "legendario" => arg.v >= 1000
      /\ arg.v < 1000 => ret \in {"micro", "menor", "ligero", "moderado",
                                  "fuerte", "mayor", "épico"}

-----------------------------------------------------------------------------
(* Properties of generaTabla, under SpecGenera: pc[s] = "filtrar" is the state
   right after the call, df[s] its result and the feed of the key what the
   feed returned *)

Fuente(s) == feed[clave(sel[s])]

FuenteNoPositiva(e) == ~EsNumero(e.mag) \/ e.mag.v <= 0

\* C3: magnitud_size holds no negative and no null value; when every source
\* magnitude is <= 0 or null (also in the empty set) every magnitud_size is
\* 0.1, otherwise each is max(magnitude, 0) with null taken as 0.
C3_MagnitudSize ==
    \A s \in Sesiones :
      pc[s] = "filtrar" =>
        /\ \A i \in Indices(df[s]) :
             df[s][i].magnitud_size # NaN /\ df[s][i].magnitud_size >= 0
        /\ IF \A j \in Indices(Fuente(s)) : FuenteNoPositiva(Fuente(s)[j])
           THEN \A i \in Indices(df[s]) : df[s][i].magnitud_size = 10
           ELSE \A i \in Indices(df[s]) :
                  df[s][i].magnitud_size =
                    (IF df[s][i].magnitud = NaN \/ df[s][i].magnitud < 0
                     THEN 0 ELSE df[s][i].magnitud)

\* a feed of a null, a zero and a negative magnitude has been normalised
C3_Testigo ==
    /\ pc[1] = "filtrar"
    /\ Len(df[1]) = 3
    /\ \E i, j, k \in Indices(Fuente(1)) :
         Fuente(1)[i].mag = PyNone /\ Fuente(1)[j].mag = PyNum(0)
           /\ Fuente(1)[k].mag = PyNum(-50)
    /\ \A i \in Indices(df[1]) : df[1][i].magnitud_size = 10

\* the UTC instant of a feed time, NaT when it is no datetime
UtcEsperado(x) ==
    IF x.k = "naive" THEN x.t ELSE IF x.k = "aware" THEN x.t - x.off ELSE NaT

\* d holds every event of the feed content f once, with its time coerced to
\* UTC, index 0..n-1
EsPermutacionDeLaFuente(d, f) ==
    /\ Len(d) = Len(f)
    /\ \A i \in Indices(d) :
         /\ d[i].indice = i - 1
         /\ d[i].localizacion \in Indices(f)
         /\ d[i].time_utc = UtcEsperado(f[d[i].localizacion].time)
    /\ \A i, j \in Indices(d) :
         i # j => d[i].localizacion # d[j].localizacion

\* descending by time_utc, every null time after every non-null one
OrdenadoPorTiempo(d) ==
    \A i, j \in Indices(d) :
      i < j =>
        /\ d[i].time_utc = NaT => d[j].time_utc = NaT
        /\ (d[i].time_utc # NaT /\ d[j].time_utc # NaT)
             => d[i].time_utc >= d[j].time_utc

\* C4 as stated: the result is ordered by time_utc descending with the null
\* times last, records with equal or null times keep their feed order, and
\* the number of records is the number of feed events.
C4_OrdenEstable ==
    \A s \in Sesiones :
      pc[s] = "filtrar" =>
        /\ EsPermutacionDeLaFuente(df[s], Fuente(s))
        /\ OrdenadoPorTiempo(df[s])
        /\ \A i, j \in Indices(df[s]) :
             (i < j /\ df[s][i].time_utc = df[s][j].time_utc)
               => df[s][i].localizacion < df[s][j].localizacion

-----------------------------------------------------------------------------
(* Property of filtrar_puerto_rico, under SpecFiltro: the step from
   pc[s] = "filtrar" with the zone "Puerto Rico" is the call *)

DentroDelRecuadro(r) ==
    /\ r.lat # NaN /\ 1760 <= r.lat /\ r.lat <= 1870
    /\ r.lon # NaN /\ -6780 <= r.lon /\ r.lon <= -6480

\* the j-th smallest element of a set of numbers
Enesimo(K, j) == CHOOSE i \in K : Cardinality({x \in K : x < i}) = j - 1

\* C10: the filter keeps exactly the records with 17.6 <= lat <= 18.7 and
\* -67.8 <= lon <= -64.8, in their order, with the index 0..n-1 (none at all
\* when none matches), and filtering its result again returns the same frame.
C10_FiltroIdempotente ==
    [][\A s \in Sesiones :
         (pc[s] = "filtrar" /\ pc'[s] # "filtrar"
            /\ sel[s].zona = "Puerto Rico") =>
           LET K == {i \in Indices(df[s]) : DentroDelRecuadro(df[s][i])}
           IN /\ Len(df'[s]) = Cardinality(K)
              /\ \A j \in 1..Cardinality(K) :
                   df'[s][j] = [df[s][Enesimo(K, j)] EXCEPT !.indice = j - 1]
              /\ filtrar_puerto_rico(df'[s]) = df'[s]]_vars

\* a feed of three events was filtered to two, one on the south-west corner
C10_Testigo ==
    /\ pc[1] = "color"
    /\ sel[1].zona = "Puerto Rico"
    /\ Len(Fuente(1)) = 3
    /\ Len(df[1]) = 2
    /\ \E i \in Indices(df[1]) : df[1][i].lat = 1760 /\ df[1][i].lon = -6780

-----------------------------------------------------------------------------
(* Property of the top-N table, under SpecTop: the step from pc[s] = "tabla" *)

ColumnasMostradas == {"indice", "fecha", "localizacion", "magnitud", "clasificacion"}

\* C8: with the toggle on and row-count N (5..20) the table shows exactly
\* min(N, k) of the k records: those of highest magnitude, in descending
\* magnitude order with the null magnitudes last, display index 1..min(N, k),
\* columns date, place, magnitude and classification only; with the toggle
\* off no table is rendered; the filtered set is left as it was.
C8_TablaTopN ==
    [][\A s \in Sesiones :
         (pc[s] = "tabla" /\ pc'[s] # "tabla") =>
         /\ df'[s] = df[s]
         /\ IF sel[s].mostrar_tabla
            THEN LET t == df_tabla'[s]
                     d == df[s]
                     N == sel[s].n_eventos_tabla
                     k == Len(d)
                     mostrados == {t[i].localizacion : i \in Indices(t)}
                 IN /\ 5 <= N /\ N <= 20
                    /\ Len(t) = (IF N <= k THEN N ELSE k)
                    /\ Cardinality(mostrados) = Len(t)
                    /\ \A i \in Indices(t) :
                         /\ t[i].indice = i
                         /\ DOMAIN t[i] = ColumnasMostradas
                         /\ \E j \in Indices(d) :
                              /\ d[j].localizacion = t[i].localizacion
                              /\ d[j].fecha = t[i].fecha
                              /\ d[j].magnitud = t[i].magnitud
                              /\ d[j].clasificacion = t[i].clasificacion
                    /\ \A i, j \in Indices(t) :
                         i < j =>
                           /\ t[i].magnitud = NaN => t[j].magnitud = NaN
                           /\ (t[i].magnitud # NaN /\ t[j].magnitud # NaN)
                                => t[i].magnitud >= t[j].magnitud
                    /\ \A j \in Indices(d) :
                         d[j].localizacion \notin mostrados =>
                           \A i \in Indices(t) :
                             \/ d[j].magnitud = NaN
                             \/ /\ t[i].magnitud # NaN
                                /\ t[i].magnitud >= d[j].magnitud
                    /\ salida'[s] = Append(salida[s], [el |-> "tabla", datos |-> t])
            ELSE df_tabla'[s] = df_tabla[s] /\ salida'[s] = salida[s]]_vars

\* six records, two of them without magnitude, were cut to five rows
C8_Testigo ==
    /\ pc[1] = "hist_mag"
    /\ sel[1].mostrar_tabla
    /\ sel[1].n_eventos_tabla = 5
    /\ Len(df[1]) = 6
    /\ Len(df_tabla[1]) = 5
    /\ df_tabla[1][1].magnitud = 700
    /\ df_tabla[1][4].magnitud # NaN
    /\ df_tabla[1][5].magnitud = NaN
    /\ salida[1][Len(salida[1])].el = "tabla"

-----------------------------------------------------------------------------
(* Properties of a run, under Spec *)

EsConfigReferencia(s) ==
    /\ sel[s].zona = "Puerto Rico"
    /\ sel[s].sev_label = "todos"
    /\ sel[s].periodo_label = "mes"

TrasElColor(s) ==
    pc[s] \in {"metricas", "guardia", "stop", "tabla", "hist_mag", "hist_prof",
               "mapa", "fin"}

TrasLasMetricas(s) ==
    pc[s] \in {"guardia", "stop", "tabla", "hist_mag", "hist_prof", "mapa", "fin"}

\* the colour axis of the rendered map is pinned exactly when the flag is set
EjeDelMapa(s) ==
    (pc[s] = "fin" /\ sel[s].mostrar_mapa) =>
      salida[s][Len(salida[s])].datos.eje =
        (IF EsConfigReferencia(s) THEN <<180, 300>> ELSE <<>>)

\* C5 as stated: in the reference configuration every magnitud_color is within
\* [1.8, 3.0]; in every other configuration magnitud_color is the record's
\* magnitude; rango_fijo is true exactly in the reference configuration.
C5_ColorEnRango ==
    \A s \in Sesiones :
      TrasElColor(s) =>
        /\ rango_fijo[s] <=> EsConfigReferencia(s)
        /\ EjeDelMapa(s)
        /\ IF EsConfigReferencia(s)
           THEN \A i \in Indices(df[s]) :
                  /\ 180 <= df[s][i].magnitud_color
                  /\ df[s][i].magnitud_color <= 300
           ELSE \A i \in Indices(df[s]) :
                  df[s][i].magnitud_color = df[s][i].magnitud

\* C5 amended: as C5, except that in the reference configuration a record
\* with a null magnitude has a null magnitud_color; every other
\* magnitud_color is the magnitude clamped into [1.8, 3.0].
C5_ColorEnRangoSalvoNulos ==
    \A s \in Sesiones :
      TrasElColor(s) =>
        /\ rango_fijo[s] <=> EsConfigReferencia(s)
        /\ EjeDelMapa(s)
        /\ IF EsConfigReferencia(s)
           THEN \A i \in Indices(df[s]) :
                  LET r == df[s][i]
                  IN IF r.magnitud = NaN
                     THEN r.magnitud_color = NaN
                     ELSE /\ 180 <= r.magnitud_color
                          /\ r.magnitud_color <= 300
                          /\ r.magnitud < 180 => r.magnitud_color = 180
                          /\ r.magnitud > 300 => r.magnitud_color = 300
                          /\ (180 <= r.magnitud /\ r.magnitud <= 300)
                               => r.magnitud_color = r.magnitud
           ELSE \A i \in Indices(df[s]) :
                  df[s][i].magnitud_color = df[s][i].magnitud

\* a reference run has drawn the map of magnitudes 1.5, 4.0 and 2.67
C5_Testigo ==
    /\ pc[1] = "fin"
    /\ EsConfigReferencia(1)
    /\ sel[1].mostrar_mapa
    /\ \E i, j, k \in Indices(df[1]) :
         /\ df[1][i].magnitud = 150 /\ df[1][i].magnitud_color = 180
         /\ df[1][j].magnitud = 400 /\ df[1][j].magnitud_color = 300
         /\ df[1][k].magnitud = 267 /\ df[1][k].magnitud_color = 267

\* the sum of the cells of a column that are not NaN, up to position i
RECURSIVE SumaNoNulos(_, _)
SumaNoNulos(col, i) ==
    IF i = 0 THEN 0
    ELSE SumaNoNulos(col, i - 1) + (IF col[i] = NaN THEN 0 ELSE col[i])

Abs(x) == IF x < 0 THEN 0 - x ELSE x

\* the text txt is a number of hundredths within half a hundredth of
\* total / c, "-0.00" being the zero of a negative mean
EsLaMedia(txt, total, c) ==
    /\ \/ Len(txt) = 2 /\ txt[1] = "num"
       \/ txt = <<"-0.00">> /\ total < 0
    /\ LET v == IF txt[1] = "num" THEN txt[2] ELSE 0
       IN 2 * Abs(v * c - total) <= c

\* C6: the reported count is the number of records of the filtered set, null
\* magnitudes included; the reported mean magnitude (mean depth) is the
\* average of the non-null magnitudes (depths) only; both averages are "N/A"
\* when the count is 0.
C6_Metricas ==
    \A s \in Sesiones :
      TrasLasMetricas(s) =>
        LET mags  == [i \in Indices(df[s]) |-> df[s][i].magnitud]
            profs == [i \in Indices(df[s]) |-> df[s][i].profundidad]
            nm    == Cardinality({i \in Indices(df[s]) : mags[i] # NaN})
            np    == Cardinality({i \in Indices(df[s]) : profs[i] # NaN})
            m     == metricas[s]
        IN /\ m.cantidad = Len(df[s])
           /\ salida[s][2] = [el |-> "resumen", datos |-> m]
           /\ Len(df[s]) = 0 =>
                m.prom_mag_str = <<"N/A">> /\ m.prom_prof_str = <<"N/A">>
           /\ nm > 0 =>
                EsLaMedia(m.prom_mag_str, SumaNoNulos(mags, Len(df[s])), nm)
           /\ np > 0 =>
                /\ m.prom_prof_str[Len(m.prom_prof_str)] = "km"
                /\ EsLaMedia(SubSeq(m.prom_prof_str, 1, Len(m.prom_prof_str) - 1),
                             SumaNoNulos(profs, Len(df[s])), np)

\* magnitudes [1.5, 4.0, null]: count 3, mean 2.75, classes micro, ligero,
\* desconocida
C6_Testigo ==
    /\ pc[1] = "guardia"
    /\ Len(df[1]) = 3
    /\ df[1][1].magnitud = 150 /\ df[1][2].magnitud = 400
    /\ df[1][3].magnitud = NaN
    /\ df[1][1].clasificacion = "micro" /\ df[1][2].clasificacion = "ligero"
    /\ df[1][3].clasificacion = "desconocida"
    /\ metricas[1].cantidad = 3
    /\ metricas[1].prom_mag_str = <<"num", 275>>

Rendidos(s) == {salida[s][i].el : i \in Indices(salida[s])}

\* C7: an empty set is no error: the run ends after the summary (count 0,
\* both averages "N/A") and the warning, and renders no table, histogram or
\* map; a run with a non-empty set never shows the warning and renders both
\* histograms.
C7_ConjuntoVacio ==
    \A s \in Sesiones :
      /\ pc[s] = "stop" =>
           /\ df[s] = <<>>
           /\ [i \in Indices(salida[s]) |-> salida[s][i].el]
                = <<"titulo", "resumen", "aviso">>
           /\ salida[s][2].datos =
                [cantidad |-> 0, prom_mag_str |-> <<"N/A">>,
                 prom_prof_str |-> <<"N/A">>]
      /\ "aviso" \in Rendidos(s) => pc[s] = "stop"
      /\ pc[s] \in {"tabla", "hist_mag", "hist_prof", "mapa", "fin"} => df[s] # <<>>
      /\ pc[s] = "fin" => {"hist_mag", "hist_prof"} \subseteq Rendidos(s)
      /\ (TrasLasMetricas(s) /\ df[s] = <<>>) =>
           Rendidos(s) \cap {"tabla", "hist_mag", "hist_prof", "mapa",
                             "info_mapa", "excepcion"} = {}

\* the feed returned events, none of them in Puerto Rico, and the run stopped
C7_Testigo ==
    /\ pc[1] = "stop"
    /\ sel[1].zona = "Puerto Rico"
    /\ Len(Fuente(1)) = 2
    /\ "aviso" \in Rendidos(1)

-----------------------------------------------------------------------------
(* Property of the cache of generaTabla, under SpecCache: the steps that
   leave pc[s] = "cargar", "candado" and "peticion" are the call
   generaTabla(severidad_feed, periodo_feed) of session s *)

ClaveDeLaLlamada(s) ==
    <<IF sel[s].sev_label = "todos" THEN "all"
      ELSE IF sel[s].sev_label = "significativo" THEN "significant"
      ELSE sel[s].sev_label,
      IF sel[s].periodo_label = "mes" THEN "month"
      ELSE IF sel[s].periodo_label = "semana" THEN "week" ELSE "day">>

EnVigor(e) == e.ok /\ e.edad < 120

\* no two sessions wait for the feed's answer for the same key
UnaPeticionPorClave(p) ==
    \A s, t \in Sesiones :
      (s # t /\ p[s] = "peticion" /\ p[t] = "peticion")
        => ClaveDeLaLlamada(s) # ClaveDeLaLlamada(t)

\* C9: however the runs of the sessions interleave, while the entry of the key
\* (severity, period) is younger than 120 seconds a run with that key gets the
\* entry's frame and issues no upstream request, whatever its zone, toggles
\* and row-count, and reading the entry does not renew it; a run issues a
\* request only when the entry is 120 seconds old (or there is none) and no
\* other session is waiting for the answer to a request for the same key; the
\* result of the request becomes the entry, of age 0; no other step issues a
\* request or writes an entry.
C9_CacheTTL ==
    [][/\ UnaPeticionPorClave(pc)
       /\ UnaPeticionPorClave(pc')
       /\ \A s \in Sesiones :
            LET k == ClaveDeLaLlamada(s)
                e == cache[k]
                servida == /\ pc'[s] = "filtrar"
                           /\ df'[s] = e.df
                           /\ peticiones' = peticiones
                           /\ cache' = cache
            IN /\ (pc[s] = "cargar" /\ pc'[s] # "cargar") =>
                    IF EnVigor(e) THEN servida
                    ELSE /\ pc'[s] = "candado"
                         /\ peticiones' = peticiones
                         /\ cache' = cache
               /\ (pc[s] = "candado" /\ pc'[s] # "candado") =>
                    /\ \A t \in Sesiones \ {s} :
                         ~(pc[t] = "peticion" /\ ClaveDeLaLlamada(t) = k)
                    /\ IF EnVigor(e) THEN servida
                       ELSE /\ pc'[s] = "peticion"
                            /\ peticiones' = peticiones + 1
                            /\ cache' = cache
               /\ (pc[s] = "peticion" /\ pc'[s] # "peticion") =>
                    /\ peticiones' = peticiones
                    /\ pc'[s] \in {"filtrar", "error"}
                    /\ pc'[s] = "filtrar" =>
                         /\ df'[s] = generaTabla(feed[k])
                         /\ cache' = [cache EXCEPT
                                        ![k] = [ok |-> TRUE, df |-> df'[s],
                                                edad |-> 0]]
                    /\ pc'[s] = "error" => cache' = cache
       /\ (\A s \in Sesiones :
             pc'[s] = pc[s] \/ pc[s] \notin {"cargar", "candado", "peticion"}) =>
            /\ peticiones' = peticiones
            /\ \A c \in Claves :
                 /\ cache'[c].ok = cache[c].ok
                 /\ cache'[c].df = cache[c].df
                 /\ cache'[c].edad >= cache[c].edad]_vars

\* two sessions whose runs overlap, one for Puerto Rico and one for the
\* world: the second is served by the entry, 60 seconds old, of the only
\* request so far, while the first is still rendering and although the feed
\* holds other events by now
C9_Testigo ==
    /\ pc[1] = "metricas"
    /\ pc[2] = "filtrar"
    /\ sel[1].zona = "Puerto Rico"
    /\ sel[2].zona = "Mundo"
    /\ ClaveDeLaLlamada(1) = ClaveDeLaLlamada(2)
    /\ peticiones = 1
    /\ cache[ClaveDeLaLlamada(2)].ok
    /\ cache[ClaveDeLaLlamada(2)].edad = 60
    /\ df[2] = cache[ClaveDeLaLlamada(2)].df
    /\ df[2] # <<>>
    /\ Fuente(2) = <<>>

====
